---- MODULE Spec2Model ----
(***************************************************************************)
(* Model of the day-bucketed communications store of backend/server.js,    *)
(* the seeding script backend/setup.js and the campaign pagination driver  *)
(* of frontend/src/App.jsx.                                                *)
(*                                                                         *)
(* The `communications` collection is a sequence of bucket documents in    *)
(* insertion (natural) order.  findOne / updateOne act on the first        *)
(* document that matches their filter; an updateOne changes one document    *)
(* atomically.  An updateOne with {upsert: true} whose filter matches no   *)
(* document inserts a new one; the collection has no unique index on       *)
(* (user.id, day) (setup.js creates a plain compound index), so the match  *)
(* and the insert of an upsert are two steps that other requests may       *)
(* interleave with.                                                        *)
(*                                                                         *)
(* Time is an integer number of ticks since the epoch (the code uses       *)
(* milliseconds); an hour is TicksPerHour ticks and a UTC day HoursPerDay  *)
(* hours.  content_score (a random float) is left out of the events.       *)
(***************************************************************************)
EXTENDS Integers, Sequences, FiniteSets, TLC

VARIABLES store, pending, now, last, pageSize, view, ghost

vars == <<store, pending, now, last, pageSize, view, ghost>>

----------------------------------------------------------------------------
(* Bounds of the model *)

TicksPerHour == 1
HoursPerDay == 2
MaxUser == 2
MaxCount == 2
MaxOps == 3
MaxWrites == 2
MaxInFlight == 2
SeedUsers == 1
SeedComms == 1
DefaultStartingUserId == 1
SmallUsers == 4
MaxPageSize == 3
MaxAbsent == 2
MaxMut == 1

(* Program constants *)

RetentionDays == 7
PAGE_SIZE == 10
DAYS_OF_DATA_TO_GENERATE == 3
FLAT_PAGE_SIZE == 500
FLAT_STARTING_USER_ID == 1000
PAD_WIDTH == 3
DOCS_PER_USER == 5

TicksPerDay == HoursPerDay * TicksPerHour

\* The run starts in the last tick of day 0 and may pass midnight.
FirstTime == TicksPerDay - 1
MaxTime == TicksPerDay

UserIds == 1 .. MaxUser
USER_TYPES == {"standard"}
TEMPLATES == {"template_001", "template_002"}
TRACKING_IDS == {"track_001", "track_002"}
STATUSES == {"sent", "opened"}
Times == FirstTime .. MaxTime

----------------------------------------------------------------------------
(* JavaScript / BSON helpers *)

\* !x of JavaScript on a request field: a missing or zero number and a missing
\* or empty string are falsy.  A missing number is modelled as 0, a missing string as "".
FalsyNum(x) == x = 0

\* A check that lets the empty string pass.
FalsyStrNever(x) == FALSE

FalsyStr(x) == x = ""

\* A timestamp on the wire (JSON) is an ISO string, written Iso(t); in the handlers
\* and in the store it is a Date, written as its instant t.
Iso(t) == [iso |-> t]

\* The Unix epoch, long before the days of the run.
Epoch == (0 - 1000) * TicksPerDay

\* An Invalid Date: its time value is NaN.
InvalidDate == Epoch - 1

\* A date string that does not parse.
Unparsable == [iso |-> InvalidDate]

\* new Date(s) of an ISO string; an Invalid Date when s does not parse.
NewDate(w) == w.iso

\* The BSON encoding of a Date in a filter or a document: the time value as a
\* 64-bit integer, which is 0 (the epoch) for the NaN of an Invalid Date.
BSONDate(d) == IF d = InvalidDate THEN Epoch ELSE d

\* parseInt of a path parameter that is not a number.
NaNUserId == 0 - 1

\* A date parameter that is absent, and !date.
NoDate == [iso |-> Epoch - 2]
FalsyDate(w) == w = NoDate

\* An hour parameter that is absent, and !hour.
NoHour == 0 - 1
FalsyHour(h) == h = NoHour

\* JSON serialisation of a Date (res.json)
ToISOString(d) == [iso |-> d]

\* d.setUTCHours(0, 0, 0, 0): truncation to UTC midnight.
StartOfDayUTC(d) == IF d = InvalidDate THEN InvalidDate ELSE (d \div TicksPerDay) * TicksPerDay

\* d.setUTCHours(h, 0, 0, 0)
SetUTCHours(d, h) == IF d = InvalidDate THEN InvalidDate ELSE StartOfDayUTC(d) + h * TicksPerHour

Range(s) == { s[i] : i \in 1 .. Len(s) }

\* Index of the first element of s satisfying P, 0 when there is none.
FirstIndex(s, P(_)) ==
    IF \E i \in 1 .. Len(s) : P(s[i])
    THEN CHOOSE i \in 1 .. Len(s) : P(s[i]) /\ \A j \in 1 .. (i - 1) : ~P(s[j])
    ELSE 0

Event(t, templateId, trackingId, status) ==
    [dispatch_time |-> t,
     metadata |-> [tracking_id |-> trackingId, template_id |-> templateId],
     status |-> status]

Bucket(userId, userType, day, expireAt, events) ==
    [user |-> [id |-> userId, type |-> userType],
     day |-> day,
     event_count |-> Len(events),
     expireAt |-> expireAt,
     events |-> events]

\* A field an upsert leaves unset in the inserted document.
Unset == "unset"
UnsetTime == 0 - 1

----------------------------------------------------------------------------
(* Queries and updates of the communications collection *)

\* filter { "user.id": userId, day: startOfDay }
MatchesUserDay(b, userId, startOfDay) == b.user.id = userId /\ b.day = BSONDate(startOfDay)

\* res.json(events): every Date becomes its ISO string.
EventsToJSON(events) ==
    [i \in 1 .. Len(events) |-> [events[i] EXCEPT !.dispatch_time = ToISOString(@)]]

\* findOne(query) and the response body: the events of the first matching
\* bucket, [] when there is none.
GetDayEvents(st, userId, date) ==
    LET startOfDay == StartOfDayUTC(NewDate(date))
        idx == FirstIndex(st, LAMBDA b : MatchesUserDay(b, userId, startOfDay))
    IN  IF idx = 0 THEN << >> ELSE EventsToJSON(st[idx].events)

\* The arrayFilters condition on one element of events.
ElemMatches(e, eventDispatchTime, templateId, trackingId) ==
    /\ e.dispatch_time = eventDispatchTime
    /\ e.metadata.template_id = templateId
    /\ e.metadata.tracking_id = trackingId

\* A filter that leaves the tracking id out.
StatusFilterNoTracking(b, userId, eventDispatchTime, templateId, trackingId) ==
    /\ b.user.id = userId
    /\ \E e \in Range(b.events) : e.dispatch_time = eventDispatchTime
    /\ \E e \in Range(b.events) : e.metadata.template_id = templateId

\* The filter of the status update: dotted paths into the events array, each
\* satisfied by any element of the array.
StatusFilter(b, userId, eventDispatchTime, templateId, trackingId) ==
    /\ b.user.id = userId
    /\ \E e \in Range(b.events) : e.dispatch_time = eventDispatchTime
    /\ \E e \in Range(b.events) : e.metadata.template_id = templateId
    /\ \E e \in Range(b.events) : e.metadata.tracking_id = trackingId

\* { $set: { "events.$[elem].status": newStatus } } with the arrayFilters.
SetStatus(events, eventDispatchTime, templateId, trackingId, newStatus) ==
    [i \in 1 .. Len(events) |->
        IF ElemMatches(events[i], eventDispatchTime, templateId, trackingId)
        THEN [events[i] EXCEPT !.status = newStatus]
        ELSE events[i]]

\* A status update that reports the number of documents it modified.
UpdateStatusModified(st, req) ==
    LET eventDispatchTime == NewDate(req.dispatch_time)
        idx == FirstIndex(st, LAMBDA b :
                   StatusFilter(b, req.userId, eventDispatchTime, req.templateId, req.trackingId))
        events == IF idx = 0 THEN << >>
                  ELSE SetStatus(st[idx].events, eventDispatchTime, req.templateId,
                                 req.trackingId, req.newStatus)
    IN  IF idx = 0
        THEN [store |-> st, matchedCount |-> 0]
        ELSE [store |-> [st EXCEPT ![idx].events = events],
              matchedCount |-> IF events = st[idx].events THEN 0 ELSE 1]

\* updateOne(filter, update, options) of the status update: the collection after
\* it and its matchedCount.
UpdateStatus(st, req) ==
    LET eventDispatchTime == NewDate(req.dispatch_time)
        idx == FirstIndex(st, LAMBDA b :
                   StatusFilter(b, req.userId, eventDispatchTime, req.templateId, req.trackingId))
    IN  IF idx = 0
        THEN [store |-> st, matchedCount |-> 0]
        ELSE [store |-> [st EXCEPT ![idx].events =
                            SetStatus(@, eventDispatchTime, req.templateId,
                                      req.trackingId, req.newStatus)],
              matchedCount |-> 1]

Min(a, b) == IF a < b THEN a ELSE b

\* { $sort: { _id: 1 } } over the distinct _id values of the $group stage.
RECURSIVE SortAscending(_)
SortAscending(S) ==
    IF S = {} THEN << >>
    ELSE LET m == CHOOSE x \in S : \A y \in S : x <= y
         IN  <<m>> \o SortAscending(S \ {m})

\* A cursor that is looked up in the sorted ids and, when it is not among
\* them, starts from the first id again.
SelectAfterPosition(s, c) ==
    IF \E i \in 1 .. Len(s) : s[i] = c
    THEN LET i == CHOOSE k \in 1 .. Len(s) : s[k] = c IN SubSeq(s, i + 1, Len(s))
    ELSE s

\* A cursor that keeps the user it points at.
SelectFrom(s, c) == SelectSeq(s, LAMBDA x : x >= c)

\* A cursor that only skips the user it points at.
SelectOthers(s, c) == SelectSeq(s, LAMBDA x : x # c)

\* A continuation that ignores its cursor.
SelectIgnoringCursor(s, c) == s

\* { $match: { _id: { $gt: parseInt(lastUserId) } } }
SelectGreater(s, c) == SelectSeq(s, LAMBDA x : x > c)

\* A $match stage written with dotted paths, each condition met by any event.
CampaignMatchAnyEvent(b, startOfDay, startOfHour, endOfHour, templateId, trackingId) ==
    /\ b.day = startOfDay
    /\ \E e \in Range(b.events) : e.dispatch_time >= startOfHour /\ e.dispatch_time < endOfHour
    /\ \E e \in Range(b.events) : e.metadata.template_id = templateId
    /\ \E e \in Range(b.events) : e.metadata.tracking_id = trackingId

\* The $match stage of the campaign query: the bucket of the day with at least
\* one single event in [startOfHour, endOfHour) of the template and tracking id.
CampaignMatch(b, startOfDay, startOfHour, endOfHour, templateId, trackingId) ==
    /\ b.day = startOfDay
    /\ \E e \in Range(b.events) :
          /\ e.dispatch_time >= startOfHour
          /\ e.dispatch_time < endOfHour
          /\ e.metadata.template_id = templateId
          /\ e.metadata.tracking_id = trackingId

\* The user ids the $match and $group stages produce for the query q.
MatchingUsers(st, q) ==
    LET startOfDay == StartOfDayUTC(NewDate(q.date))
        startOfHour == SetUTCHours(NewDate(q.date), q.hour)
        endOfHour == startOfHour + TicksPerHour
    IN  { b.user.id : b \in { x \in Range(st) :
              CampaignMatch(x, startOfDay, startOfHour, endOfHour, q.templateId, q.trackingId) } }

\* No cursor: the lastUserId parameter is absent, and null in the response.
\* User ids are positive, so 0 stands for both.
NoCursor == 0

\* A page cut at $limit size, with hasMore guessed from a full page.
DistinctUsersPageNoExtra(st, q, lastUserId, size) ==
    LET sorted == SortAscending(MatchingUsers(st, q))
        after == IF lastUserId # NoCursor THEN SelectGreater(sorted, lastUserId) ELSE sorted
        data == SubSeq(after, 1, Min(Len(after), size))
    IN  [data |-> data,
         hasMore |-> Len(data) >= size,
         lastUserId |-> IF Len(data) > 0 THEN data[Len(data)] ELSE NoCursor]

\* A page whose cursor is the last id fetched, the extra one included.
DistinctUsersPageCursorExtra(st, q, lastUserId, size) ==
    LET sorted == SortAscending(MatchingUsers(st, q))
        after == IF lastUserId # NoCursor THEN SelectGreater(sorted, lastUserId) ELSE sorted
        results == SubSeq(after, 1, Min(Len(after), size + 1))
        data == SubSeq(results, 1, Min(Len(results), size))
    IN  [data |-> data,
         hasMore |-> Len(results) > size,
         lastUserId |-> IF Len(results) > 0 THEN results[Len(results)] ELSE NoCursor]

\* The aggregation and the response of GET /api/campaigns/distinct-users for a
\* page size of size.
DistinctUsersPage(st, q, lastUserId, size) ==
    LET sorted == SortAscending(MatchingUsers(st, q))
        after == IF lastUserId # NoCursor THEN SelectGreater(sorted, lastUserId) ELSE sorted
        results == SubSeq(after, 1, Min(Len(after), size + 1))
        hasMore == Len(results) > size
        data == SubSeq(results, 1, Min(Len(results), size))
    IN  [data |-> data,
         hasMore |-> hasMore,
         lastUserId |-> IF Len(data) > 0 THEN data[Len(data)] ELSE NoCursor]

\* The document an upsert starts from when its filter matches nothing: the
\* equality fields of the filter and the $setOnInsert fields; the update
\* operators are then applied to it ($push and $inc create their fields).
UpsertDoc(userId, userType, day, expireAt) ==
    [user |-> [id |-> userId, type |-> userType],
     day |-> day,
     event_count |-> 0,
     expireAt |-> expireAt,
     events |-> << >>]

\* A push that writes back the events as they were when they were sent.
PushEventsResetStatus(b, eventsToPush) ==
    [b EXCEPT !.events = [i \in 1 .. Len(@) |-> [@[i] EXCEPT !.status = "sent"]] \o eventsToPush,
              !.event_count = @ + Len(eventsToPush)]

\* A push that counts one per call.
PushEventsIncOne(b, eventsToPush) ==
    [b EXCEPT !.events = @ \o eventsToPush, !.event_count = @ + 1]

\* A push that keeps the pushed events only.
PushEventsOverwrite(b, eventsToPush) ==
    [b EXCEPT !.events = eventsToPush, !.event_count = @ + Len(eventsToPush)]

\* { $push: { events: { $each: eventsToPush } }, $inc: { event_count: eventsToPush.length } }
PushEvents(b, eventsToPush) ==
    [b EXCEPT !.events = @ \o eventsToPush, !.event_count = @ + Len(eventsToPush)]

\* A replace that merges with the events of the bucket.
SetEventsMerging(b, newEvents) ==
    [b EXCEPT !.events = @ \o newEvents, !.event_count = @ + Len(newEvents)]

\* { $set: { events: newEvents, event_count: newEvents.length } }
SetEvents(b, newEvents) ==
    [b EXCEPT !.events = newEvents, !.event_count = Len(newEvents)]

----------------------------------------------------------------------------
(* Requests *)

NoRequest == [op |-> "none", req |-> << >>, status |-> 0, body |-> << >>]

\* A request may start while at most `limit` upserts are between their match
\* and their insert, and the run has requests left.
CanStart(limit) == Len(pending) <= limit /\ ghost.ops < MaxOps

\* The same for a request that writes buckets, of which a run has MaxWrites.
CanWrite(limit) == CanStart(limit) /\ ghost.writes < MaxWrites

\* A communications field that is absent or is not an array, and Array.isArray.
NotArray == <<[dispatch_time |-> NoDate, metadata |-> [template_id |-> "", tracking_id |-> ""],
               status |-> "not an array"]>>
IsArray(communications) == communications # NotArray

\* The observed outcome of a request.
Response(op, req, status, body) == [op |-> op, req |-> req, status |-> status, body |-> body]

\* The status of a request that is never answered.
NoResponse == 0 - 1

\* The outcomes of a handler whose promise rejects (a store operation fails, or
\* the handler throws after an await).  No handler catches, and no error
\* middleware is installed: the framework either passes the rejection to its
\* default error handler, which answers 500, or ignores the returned promise,
\* and then the request is never answered.
Rejected(op, req) == { Response(op, req, 500, << >>), Response(op, req, NoResponse, << >>) }

SumOf(key) == IF key \in DOMAIN ghost.sum THEN ghost.sum[key] ELSE 0

Tainted == 0 - 1

\* The query of the campaign view (the form's params).
Params ==
    [date |-> Iso(TicksPerDay), hour |-> 1,
     templateId |-> "template_001", trackingId |-> "track_001"]

\* Bookkeeping for the pagination properties, given the collection st2 after the
\* step: whether the matching users are those of the time of the search, the
\* users that started to match below the cursor after a page was fetched, the
\* users that stopped matching while they were the cursor of the next page, and
\* the users that have matched ever since the search.
Watched(g, st2) ==
    LET before == MatchingUsers(store, Params)
        after == MatchingUsers(st2, Params)
    IN  [g EXCEPT !.stable = @ /\ after = before,
                  !.below = @ \cup { <<u, view.page>> : u \in { x \in after \ before :
                                        /\ view.searched
                                        /\ view.lastUserId # NoCursor
                                        /\ x < view.lastUserId
                                        /\ x \notin Range(view.distinctUsers) } },
                  !.gone = @ \cup { <<u, view.page>> : u \in { x \in before \ after :
                                        /\ view.searched
                                        /\ view.hasMore
                                        /\ x = view.lastUserId } },
                  !.always = @ \cap after]

\* The bookkeeping of a completed request: whether it repeats the previous
\* completed request, and per (user, day) the number of events appended since
\* the bucket was absent (Tainted once a replace or the seeding touched it).
Completed(g, op, req, key, n) ==
    [Watched(g, store') EXCEPT
        !.retry = (last.op = op /\ last.req = req),
        !.failed = FALSE,
        !.sum = IF n = 0 THEN @
                ELSE (key :> (IF n = Tainted \/ SumOf(key) = Tainted
                              THEN Tainted ELSE SumOf(key) + n)) @@ @]

Started(g) == [g EXCEPT !.ops = @ + 1]
StartedWrite(g) == [g EXCEPT !.ops = @ + 1, !.writes = @ + 1]

RemoveAt(s, i) == SubSeq(s, 1, i - 1) \o SubSeq(s, i + 1, Len(s))

\* The clock advances.
Tick ==
    /\ now < MaxTime
    /\ now' = now + 1
    /\ UNCHANGED <<store, pending, last, pageSize, view, ghost>>

\* GET /api/communications/user/:id?date=.  With an Invalid Date the query runs
\* with the day the driver encodes; in debug mode the handler first logs
\* startOfDay.toISOString(), which throws on an Invalid Date.
GetDay(limit, userId, date) ==
    /\ CanStart(limit)
    /\ store' = store
    /\ LET req == [userId |-> userId, date |-> date]
       IN  /\ IF FalsyDate(date)
              THEN last' = Response("getday", req, 400, << >>)
              ELSE \/ last' = Response("getday", req, 200, GetDayEvents(store, userId, date))
                   \/ /\ NewDate(date) = InvalidDate
                      /\ last' \in Rejected("getday", req)
           /\ ghost' = Completed(Started(ghost), "getday", req, << >>, 0)
    /\ UNCHANGED <<pending, now, pageSize, view>>

\* POST /api/communications.  The handler reads the clock once for the day and
\* once per event; the clock may advance in between: the first k events read
\* `now`, the others one tick later (k is 0 or count).
AppendEvents(limit, userId, userType, templateId, trackingId, count, k) ==
    /\ CanWrite(limit)
    /\ k \in {0, count}
    /\ k < count => now < MaxTime
    /\ LET req == [userId |-> userId, userType |-> userType, templateId |-> templateId,
                   trackingId |-> trackingId, count |-> count]
       IN  IF FalsyNum(userId) \/ FalsyStr(userType) \/ FalsyStr(templateId) \/ FalsyStr(trackingId)
           THEN /\ k = count
                /\ store' = store
                /\ last' = Response("append", req, 400, << >>)
                /\ ghost' = Completed(StartedWrite(ghost), "append", req, << >>, 0)
                /\ UNCHANGED <<pending, now, pageSize, view>>
           ELSE LET startOfDay == StartOfDayUTC(now)
                    expireAt == startOfDay + RetentionDays * TicksPerDay
                    eventsToPush == [i \in 1 .. count |->
                                        Event(IF i <= k THEN now ELSE now + 1,
                                              templateId, trackingId, "sent")]
                    idx == FirstIndex(store, LAMBDA b : MatchesUserDay(b, userId, startOfDay))
                IN  /\ now' = IF k < count THEN now + 1 ELSE now
                    /\ IF idx > 0
                       THEN /\ store' = [store EXCEPT ![idx] = PushEvents(@, eventsToPush)]
                            /\ last' = Response("append", req, 201, << >>)
                            /\ ghost' = Completed(StartedWrite(ghost), "append", req,
                                                  <<userId, startOfDay>>, count)
                            /\ UNCHANGED <<pending, pageSize, view>>
                       ELSE /\ pending' = Append(pending,
                                   [doc |-> PushEvents(UpsertDoc(userId, userType, startOfDay, expireAt),
                                                       eventsToPush),
                                    response |-> Response("append", req, 201, << >>),
                                    n |-> count])
                            /\ ghost' = StartedWrite(ghost)
                            /\ UNCHANGED <<store, last, pageSize, view>>

\* The insert of an upsert whose filter matched no document, and its response.
UpsertInsert(i) ==
    /\ i \in 1 .. Len(pending)
    /\ LET p == pending[i]
       IN  /\ store' = Append(store, p.doc)
           /\ last' = p.response
           /\ ghost' = Completed(ghost, p.response.op, p.response.req,
                                 <<p.doc.user.id, p.doc.day>>, p.n)
    /\ pending' = RemoveAt(pending, i)
    /\ UNCHANGED <<now, pageSize, view>>

\* PUT /api/communications/status
UpdateEventStatus(limit, userId, dispatch_time, templateId, trackingId, newStatus) ==
    /\ CanStart(limit)
    /\ LET req == [userId |-> userId, dispatch_time |-> dispatch_time, templateId |-> templateId,
                   trackingId |-> trackingId, newStatus |-> newStatus]
       IN  IF \/ FalsyNum(userId) \/ FalsyDate(dispatch_time) \/ FalsyStr(templateId)
              \/ FalsyStr(trackingId) \/ FalsyStr(newStatus)
           THEN /\ store' = store
                /\ last' = Response("status", req, 400, << >>)
                /\ ghost' = Completed(Started(ghost), "status", req, << >>, 0)
           ELSE LET result == UpdateStatus(store, req)
                IN  /\ store' = result.store
                    /\ last' = Response("status", req,
                                        IF result.matchedCount = 0 THEN 404 ELSE 200, << >>)
                    /\ ghost' = Completed(Started(ghost), "status", req, << >>, 0)
    /\ UNCHANGED <<pending, now, pageSize, view>>

\* GET /api/campaigns/distinct-users
CampaignDistinctUsers(limit, date, hour, templateId, trackingId, lastUserId) ==
    /\ CanStart(limit)
    /\ store' = store
    /\ LET q == [date |-> date, hour |-> hour, templateId |-> templateId, trackingId |-> trackingId]
           req == [q |-> q, lastUserId |-> lastUserId]
       IN  /\ IF FalsyDate(date) \/ FalsyHour(hour) \/ FalsyStr(templateId) \/ FalsyStr(trackingId)
              THEN last' = Response("campaign", req, 400, << >>)
              ELSE last' = Response("campaign", req, 200,
                                    DistinctUsersPage(store, q, lastUserId, pageSize))
           /\ ghost' = Completed(Started(ghost), "campaign", req, << >>, 0)
    /\ UNCHANGED <<pending, now, pageSize, view>>

\* POST /api/communications/replace.  An Invalid Date is handled as in GetDay.
ReplaceDay(limit, userId, date, communications) ==
    /\ CanWrite(limit)
    /\ LET req == [userId |-> userId, date |-> date, communications |-> communications]
       IN  IF FalsyNum(userId) \/ FalsyDate(date) \/ ~IsArray(communications)
           THEN /\ store' = store
                /\ last' = Response("replace", req, 400, << >>)
                /\ ghost' = Completed(StartedWrite(ghost), "replace", req, << >>, 0)
                /\ UNCHANGED pending
           ELSE LET startOfDay == StartOfDayUTC(NewDate(date))
                    newEvents == [i \in 1 .. Len(communications) |->
                                     [communications[i] EXCEPT !.dispatch_time = NewDate(@)]]
                    idx == FirstIndex(store, LAMBDA b : MatchesUserDay(b, userId, startOfDay))
                IN  \/ IF idx > 0
                       THEN /\ store' = [store EXCEPT ![idx] = SetEvents(@, newEvents)]
                            /\ last' = Response("replace", req, 200, << >>)
                            /\ ghost' = Completed(StartedWrite(ghost), "replace", req,
                                                  <<userId, BSONDate(startOfDay)>>, Tainted)
                            /\ UNCHANGED pending
                       ELSE /\ pending' = Append(pending,
                                   [doc |-> SetEvents(UpsertDoc(userId, Unset, BSONDate(startOfDay),
                                                                UnsetTime),
                                                      newEvents),
                                    response |-> Response("replace", req, 200, << >>),
                                    n |-> Tainted])
                            /\ ghost' = StartedWrite(ghost)
                            /\ UNCHANGED <<store, last>>
                    \/ /\ startOfDay = InvalidDate
                       /\ store' = store
                       /\ last' \in Rejected("replace", req)
                       /\ ghost' = Completed(StartedWrite(ghost), "replace", req, << >>, 0)
                       /\ UNCHANGED pending
    /\ UNCHANGED <<now, pageSize, view>>

----------------------------------------------------------------------------
(* setup.js *)

Max(S) == CHOOSE x \in S : \A y \in S : y <= x

\* The instant of a local calendar day, hour and minute in a zone tz ticks east of UTC.
LocalToUTC(localDay, hour, minute, tz) ==
    localDay * TicksPerDay + hour * TicksPerHour + minute - tz

\* The local calendar day of an instant (getDate).
LocalDay(t, tz) == (t + tz) \div TicksPerDay

\* The bucket of user userId for `day` days ago: its events all carry the hour,
\* template and tracking id drawn for it; its day is the UTC day of the first event.
SeedBucket(userId, day, tz, hour, minute, templateId, trackingId) ==
    LET baseDate == LocalToUTC(LocalDay(now, tz) - day, hour, minute, tz)
        eventsForDay == [j \in 1 .. SeedComms |-> Event(baseDate, templateId, trackingId, "sent")]
        startOfDay == StartOfDayUTC(eventsForDay[1].dispatch_time)
        expireAt == startOfDay + RetentionDays * TicksPerDay
    IN  Bucket(userId, "standard", startOfDay, expireAt, eventsForDay)

\* One run of the script, in reset or in append mode, on a machine whose zone
\* is tz ticks east of UTC; hours[day] is the hour drawn for the events of a day.
SetupAndSeed(limit, isAppendMode, tz, hours, minute, templateId, trackingId) ==
    /\ CanWrite(limit)
    /\ LET kept == IF isAppendMode THEN store ELSE << >>
           startingUserId ==
               IF isAppendMode /\ store # << >>
               THEN Max({ b.user.id : b \in Range(store) }) + 1
               ELSE DefaultStartingUserId
           bucketBatch ==
               [n \in 1 .. SeedUsers * DAYS_OF_DATA_TO_GENERATE |->
                   LET i == (n - 1) \div DAYS_OF_DATA_TO_GENERATE
                       day == (n - 1) % DAYS_OF_DATA_TO_GENERATE
                   IN  SeedBucket(startingUserId + i, day, tz, hours[day], minute,
                                  templateId, trackingId)]
           req == [isAppendMode |-> isAppendMode]
       IN  /\ store' = kept \o bucketBatch
           /\ last' = Response("seed", req, 0, << >>)
           /\ ghost' = [Watched(StartedWrite(ghost), store') EXCEPT
                           !.retry = FALSE,
                           !.sum = [key \in { <<b.user.id, b.day>> : b \in Range(bucketBatch) }
                                       |-> Tainted] @@ (IF isAppendMode THEN @ ELSE << >>)]
    /\ UNCHANGED <<pending, now, pageSize, view>>

----------------------------------------------------------------------------
(* CampaignView of App.jsx *)

\* handleSearch(isLoadMore, currentLastUserId) with its response.
HandleSearch(isLoadMore, currentLastUserId) ==
    LET useLastUserId == IF currentLastUserId # NoCursor THEN currentLastUserId ELSE view.lastUserId
        lastUserId == IF isLoadMore /\ useLastUserId # NoCursor THEN useLastUserId ELSE NoCursor
        data == DistinctUsersPage(store, Params, lastUserId, pageSize)
    IN  [searched |-> TRUE,
         distinctUsers |-> IF isLoadMore THEN view.distinctUsers \o data.data ELSE data.data,
         hasMore |-> data.hasMore,
         lastUserId |-> data.lastUserId,
         currentLoadMore |-> data.lastUserId,
         page |-> IF isLoadMore THEN view.page + 1 ELSE 1]

\* The Search button: handleFormSubmit.
HandleFormSubmit ==
    /\ view' = HandleSearch(FALSE, NoCursor)
    /\ ghost' = [ghost EXCEPT !.stable = TRUE, !.below = {}, !.gone = {},
                               !.always = MatchingUsers(store, Params)]
    /\ UNCHANGED <<store, pending, now, last, pageSize>>

\* The Load More button, rendered when there are results and hasMore.
LoadMore ==
    /\ view.searched
    /\ Len(view.distinctUsers) > 0
    /\ view.hasMore
    /\ view' = HandleSearch(TRUE, view.currentLoadMore)
    /\ UNCHANGED <<store, pending, now, last, pageSize, ghost>>

----------------------------------------------------------------------------
(* The inputs of the requests *)

\* The date parameter: day 0 written with a time of day, day 1 at midnight.
Days == { Iso(FirstTime), Iso(TicksPerDay) }
WireTimes == { Iso(t) : t \in Times }
NewStatuses == {"opened", "failed"}

WireEvent(t, templateId, trackingId, status) == Event(Iso(t), templateId, trackingId, status)

ReplaceLists ==
    LET e1 == WireEvent(FirstTime, "template_001", "track_001", "replaced")
        e2 == WireEvent(MaxTime, "template_002", "track_002", "replaced")
    IN  { << >>, <<e1>>, <<e2, e1>> }

\* The hours drawn for the seeded days: the last hour for every day, or the
\* first hour today and the last hour on the days before.
SeedHours ==
    { [day \in 0 .. (DAYS_OF_DATA_TO_GENERATE - 1) |-> HoursPerDay - 1],
      [day \in 0 .. (DAYS_OF_DATA_TO_GENERATE - 1) |-> IF day = 0 THEN 0 ELSE HoursPerDay - 1] }

TzOffsets == { 0, TicksPerHour }

----------------------------------------------------------------------------
(* The bucket store under concurrent requests *)

NoView ==
    [searched |-> FALSE, distinctUsers |-> << >>, hasMore |-> FALSE,
     lastUserId |-> NoCursor, currentLoadMore |-> NoCursor, page |-> 1]

NoGhost ==
    [ops |-> 0, writes |-> 0, retry |-> FALSE, sum |-> << >>, stable |-> TRUE, below |-> {},
     gone |-> {}, always |-> {}, failed |-> FALSE]

Init ==
    /\ store = << >>
    /\ pending = << >>
    /\ now = FirstTime
    /\ last = NoRequest
    /\ pageSize = PAGE_SIZE
    /\ view = NoView
    /\ ghost = NoGhost

Requests(limit) ==
    \/ \E userId \in UserIds, date \in Days : GetDay(limit, userId, date)
    \/ \E userId \in UserIds, userType \in USER_TYPES, templateId \in {"template_001"},
          trackingId \in TRACKING_IDS, count \in 0 .. MaxCount, k \in 0 .. MaxCount :
          AppendEvents(limit, userId, userType, templateId, trackingId, count, k)
    \/ \E userId \in UserIds, dispatch_time \in WireTimes, templateId \in TEMPLATES,
          trackingId \in TRACKING_IDS, newStatus \in NewStatuses :
          UpdateEventStatus(limit, userId, dispatch_time, templateId, trackingId, newStatus)
    \/ \E userId \in UserIds, date \in Days, communications \in ReplaceLists :
          ReplaceDay(limit, userId, date, communications)
    \/ \E isAppendMode \in BOOLEAN, tz \in TzOffsets,
          hours \in SeedHours, minute \in {0} :
          SetupAndSeed(limit, isAppendMode, tz, hours, minute, "template_001", "track_001")

Next ==
    \/ Tick
    \/ Requests(MaxInFlight - 1)
    \/ \E i \in 1 .. MaxInFlight : UpsertInsert(i)

Spec == Init /\ [][Next]_vars

\* One request at a time: a request starts when no upsert is in flight.
NextSeq ==
    \/ Tick
    \/ Requests(0)
    \/ \E i \in 1 .. MaxInFlight : UpsertInsert(i)

SpecSeq == Init /\ [][NextSeq]_vars

----------------------------------------------------------------------------
(* Malformed requests and failing store operations *)

\* An awaited store operation (findOne, updateOne) of a handler rejects after
\* the validation passed: nothing is written, and the handler's promise
\* rejects.
StoreOperationFails(limit, op, req) ==
    /\ CanStart(limit)
    /\ store' = store
    /\ last' \in Rejected(op, req)
    /\ ghost' = [Completed(Started(ghost), op, req, << >>, 0) EXCEPT !.failed = TRUE]
    /\ UNCHANGED <<pending, now, pageSize, view>>

\* The path parameter :id, a number or not, and the date parameter, a day, a
\* string that is no date, or absent.
PathUserIds == UserIds \cup {NaNUserId}
DateParams == Days \cup {Unparsable, NoDate}

NextFaulty ==
    \/ Tick
    \/ \E userId \in PathUserIds, date \in DateParams : GetDay(0, userId, date)
    \/ \E userId \in UserIds, userType \in USER_TYPES, trackingId \in TRACKING_IDS :
          AppendEvents(0, userId, userType, "template_001", trackingId, 1, 1)
    \/ \E userId \in UserIds, date \in DateParams, communications \in ReplaceLists :
          ReplaceDay(0, userId, date, communications)
    \/ \E i \in 1 .. MaxInFlight : UpsertInsert(i)
    \/ \E userId \in UserIds, date \in Days :
          StoreOperationFails(0, "getday", [userId |-> userId, date |-> date])
    \/ \E userId \in UserIds, userType \in USER_TYPES, trackingId \in TRACKING_IDS :
          StoreOperationFails(0, "append",
              [userId |-> userId, userType |-> userType, templateId |-> "template_001",
               trackingId |-> trackingId, count |-> 1])

SpecFaulty == Init /\ [][NextFaulty]_vars

----------------------------------------------------------------------------
(* Requests that lack a required field *)

\* The fields of a request body or query, each present or absent.
BodyUserIds == {1, 0}
BodyStrings(present) == {present, ""}
BodyDates == {Iso(FirstTime), NoDate}
BodyHours == {0, NoHour}
BodyLists == {<<WireEvent(FirstTime, "template_001", "track_001", "replaced")>>, NotArray}

NextInvalid ==
    \/ Tick
    \/ \E date \in BodyDates : GetDay(0, 1, date)
    \/ \E userId \in BodyUserIds, userType \in BodyStrings("standard"),
          templateId \in BodyStrings("template_001"), trackingId \in BodyStrings("track_001") :
          AppendEvents(0, userId, userType, templateId, trackingId, 1, 1)
    \/ \E userId \in BodyUserIds, dispatch_time \in BodyDates,
          templateId \in BodyStrings("template_001"), trackingId \in BodyStrings("track_001"),
          newStatus \in BodyStrings("opened") :
          UpdateEventStatus(0, userId, dispatch_time, templateId, trackingId, newStatus)
    \/ \E date \in BodyDates, hour \in BodyHours, templateId \in BodyStrings("template_001"),
          trackingId \in BodyStrings("track_001"), lastUserId \in {NoCursor, 1} :
          CampaignDistinctUsers(0, date, hour, templateId, trackingId, lastUserId)
    \/ \E userId \in BodyUserIds, date \in BodyDates, communications \in BodyLists :
          ReplaceDay(0, userId, date, communications)
    \/ \E i \in 1 .. MaxInFlight : UpsertInsert(i)

SpecInvalid == Init /\ [][NextInvalid]_vars

----------------------------------------------------------------------------
(* The store over the retention period *)

\* The first tick after the expireAt of a bucket created on day 1.
ExpiryHorizon == TicksPerDay + RetentionDays * TicksPerDay + 1

\* The clock over the retention period.
TickPast ==
    /\ now < ExpiryHorizon
    /\ now' = now + 1
    /\ UNCHANGED <<store, pending, last, pageSize, view, ghost>>

\* The collection has the indexes the setup script creates; the createIndex
\* call of the TTL index on expireAt is commented out, so the store runs no
\* expiry on the collection, and no handler deletes a document: the requests
\* and the clock are all that acts on the collection.
NextExpiry ==
    \/ TickPast
    \/ \E userId \in UserIds, date \in Days : GetDay(0, userId, date)
    \/ \E userId \in UserIds, trackingId \in TRACKING_IDS :
          AppendEvents(0, userId, "standard", "template_001", trackingId, 1, 1)
    \/ \E i \in 1 .. MaxInFlight : UpsertInsert(i)

\* The clock never stops, and an upsert that matched nothing inserts.
SpecExpiry ==
    /\ Init
    /\ [][NextExpiry]_vars
    /\ WF_vars(TickPast)
    /\ WF_vars(\E i \in 1 .. MaxInFlight : UpsertInsert(i))

----------------------------------------------------------------------------
(* The flat schema: the user_comms collection *)

\* Strings whose order or concatenation matters are sequences of character
\* codes; they are compared as the store compares strings, code by code.
StrLess(a, b) ==
    \E i \in 1 .. (Min(Len(a), Len(b)) + 1) :
        /\ \A j \in 1 .. (i - 1) : a[j] = b[j]
        /\ \/ i > Len(a) /\ i <= Len(b)
           \/ i <= Len(a) /\ i <= Len(b) /\ a[i] < b[i]

Zero == 48
Hyphen == 45
Underscore == 95
PUserPrefix == <<80, Underscore, 117, 115, 101, 114>>
TemplatePrefix == <<116, 101, 109, 112, 108, 97, 116, 101, Underscore>>

\* String(n) of a natural number.
RECURSIVE DecimalString(_)
DecimalString(n) ==
    IF n < 10 THEN <<Zero + n>> ELSE DecimalString(n \div 10) \o <<Zero + (n % 10)>>

\* s.padStart(width, '0')
PadStart(s, width) ==
    IF Len(s) >= width THEN s ELSE [i \in 1 .. (width - Len(s)) |-> Zero] \o s

\* `P_user${String(n).padStart(3, '0')}`
UserIdOf(n) == PUserPrefix \o PadStart(DecimalString(n), PAD_WIDTH)

\* A key of the user id and the tracking id only.
CompositeIdNoTemplate(userId, trackingId, templateId) ==
    userId \o <<Underscore>> \o trackingId

\* `${userId}_${trackingId}_${templateId}`
CompositeId(userId, trackingId, templateId) ==
    userId \o <<Underscore>> \o trackingId \o <<Underscore>> \o templateId

\* A document of user_comms (the fields the queries use).
FlatDoc(userId, trackingId, templateId, plannedDateHour, finalScore) ==
    [_id |-> CompositeId(userId, trackingId, templateId),
     user_id |-> userId,
     tracking_id |-> trackingId,
     template_id |-> templateId,
     planned_date_hour |-> plannedDateHour,
     final_score |-> finalScore]

\* { sort: { user_id: 1 } } over a set of documents with distinct user ids.
RECURSIVE SortByUserId(_)
SortByUserId(D) ==
    IF D = {} THEN << >>
    ELSE LET m == CHOOSE x \in D : \A y \in D : ~StrLess(y.user_id, x.user_id)
         IN  <<m>> \o SortByUserId(D \ {m})

\* { sort: { final_score: -1 } }: documents of equal score come in an order the
\* store chooses.
RECURSIVE SortByScoreDesc(_)
SortByScoreDesc(D) ==
    IF D = {} THEN << >>
    ELSE LET m == CHOOSE x \in D : \A y \in D : y.final_score <= x.final_score
         IN  <<m>> \o SortByScoreDesc(D \ {m})

\* A cursor that is null, and the test `if (testData.lastUserId)`: null and
\* the empty string are falsy.
NullString == <<0>>
Truthy(str) == str # NullString /\ str # << >>

\* The documents find(query, options) returns for GetScheduleSegment_v1.
GetScheduleSegment_v1(st, testData, limit) ==
    LET matched == { d \in Range(st) :
                        /\ d.tracking_id = testData.trackingId
                        /\ d.template_id = testData.templateId
                        /\ d.planned_date_hour = testData.plannedDateHour
                        /\ Truthy(testData.lastUserId) => StrLess(testData.lastUserId, d.user_id) }
        sorted == SortByUserId(matched)
    IN  [i \in 1 .. Min(Len(sorted), limit) |-> sorted[i].user_id]

\* A continuation whose page starts at the cursor.
GetScheduleSegment_v2FromCursor(st, testData, limit) ==
    LET matched == { d \in Range(st) :
                        /\ d.tracking_id = testData.trackingId
                        /\ d.template_id = testData.templateId
                        /\ d.planned_date_hour = testData.plannedDateHour
                        /\ ~StrLess(d.user_id, testData.lastUserIdForV2) }
        sorted == SortByUserId(matched)
    IN  [i \in 1 .. Min(Len(sorted), limit) |-> sorted[i].user_id]

\* The documents find(query, options) returns for GetScheduleSegment_v2.
GetScheduleSegment_v2(st, testData, limit) ==
    LET matched == { d \in Range(st) :
                        /\ d.tracking_id = testData.trackingId
                        /\ d.template_id = testData.templateId
                        /\ d.planned_date_hour = testData.plannedDateHour
                        /\ testData.lastUserIdForV2 # NullString
                        /\ StrLess(testData.lastUserIdForV2, d.user_id) }
        sorted == SortByUserId(matched)
    IN  [i \in 1 .. Min(Len(sorted), limit) |-> sorted[i].user_id]

\* A schedule over the half-open range [startTime, endTime).
GetUserScheduleHalfOpen(st, testData) ==
    LET matched == { d \in Range(st) :
                        /\ d.user_id = testData.userId
                        /\ d.planned_date_hour >= testData.startTime
                        /\ d.planned_date_hour < testData.endTime }
        sorted == SortByScoreDesc(matched)
    IN  [i \in 1 .. Len(sorted) |->
            [_id |-> sorted[i]._id, tracking_id |-> sorted[i].tracking_id,
             template_id |-> sorted[i].template_id, final_score |-> sorted[i].final_score]]

\* The documents find(query, options) returns for GetUserSchedule, projected.
GetUserSchedule(st, testData) ==
    LET matched == { d \in Range(st) :
                        /\ d.user_id = testData.userId
                        /\ d.planned_date_hour >= testData.startTime
                        /\ d.planned_date_hour <= testData.endTime }
        sorted == SortByScoreDesc(matched)
    IN  [i \in 1 .. Len(sorted) |->
            [_id |-> sorted[i]._id, tracking_id |-> sorted[i].tracking_id,
             template_id |-> sorted[i].template_id, final_score |-> sorted[i].final_score]]

\* User numbers on both sides of the number whose decimal string is one digit
\* longer than that of the first user number.
FlatUserNumbers ==
    {FLAT_STARTING_USER_ID} \cup ((10 * FLAT_STARTING_USER_ID - 1) .. (10 * FLAT_STARTING_USER_ID + 1))
FlatUsers == { UserIdOf(n) : n \in FlatUserNumbers }

\* Tracking ids (hexadecimal strings) and template ids.
FlatTrackingIds == { <<97>>, <<98>>, <<99>> }
FlatTemplateId == TemplatePrefix \o <<97, Hyphen, Zero>>

\* planned_date_hour in hours of one day; final_score is written in tenths.
FlatHours == {8, 12, 20}

\* The test data of a run: the segment, and the user whose schedule is read.
SegmentData(lastUserId) ==
    [trackingId |-> <<97>>, templateId |-> FlatTemplateId, plannedDateHour |-> 8,
     lastUserId |-> lastUserId, lastUserIdForV2 |-> lastUserId]
ScheduleUser == UserIdOf(FLAT_STARTING_USER_ID)

\* The collections: per user a document of the segment's tracking id and
\* template, in the segment's hour or in another, or none; and two documents
\* of other tracking ids for the schedule user.
FlatStores ==
    { SortByUserId({ FlatDoc(u, <<97>>, FlatTemplateId, hourOf[u], 9) :
                       u \in { x \in FlatUsers : hourOf[x] # 0 } })
      \o << FlatDoc(ScheduleUser, <<98>>, FlatTemplateId, h2, s2),
            FlatDoc(ScheduleUser, <<99>>, FlatTemplateId, 20, 8) >> :
         hourOf \in [FlatUsers -> {0, 8, 12}],
         h2 \in FlatHours, s2 \in {6, 9} }

FlatCursors == FlatUsers \cup { << >>, PUserPrefix }

InitFlat ==
    /\ store \in FlatStores
    /\ pageSize \in (1 .. MaxPageSize) \cup {FLAT_PAGE_SIZE}
    /\ pending = << >>
    /\ now = FirstTime
    /\ last = NoRequest
    /\ view = NoView
    /\ ghost = NoGhost

\* One run of a benchmark query; the response is what find returns.
RunGetScheduleSegment_v1(lastUserId) ==
    /\ last' = Response("segment_v1", SegmentData(lastUserId), 200,
                        GetScheduleSegment_v1(store, SegmentData(lastUserId), pageSize))
    /\ UNCHANGED <<store, pending, now, pageSize, view, ghost>>

RunGetScheduleSegment_v2(lastUserId) ==
    /\ last' = Response("segment_v2", SegmentData(lastUserId), 200,
                        GetScheduleSegment_v2(store, SegmentData(lastUserId), pageSize))
    /\ UNCHANGED <<store, pending, now, pageSize, view, ghost>>

RunGetUserSchedule(userId, startTime, endTime) ==
    /\ LET testData == [userId |-> userId, startTime |-> startTime, endTime |-> endTime]
       IN  last' = Response("schedule", testData, 200, GetUserSchedule(store, testData))
    /\ UNCHANGED <<store, pending, now, pageSize, view, ghost>>

NextFlat ==
    \/ \E lastUserId \in FlatCursors \cup {NullString} : RunGetScheduleSegment_v1(lastUserId)
    \/ \E lastUserId \in FlatCursors \cup {NullString} : RunGetScheduleSegment_v2(lastUserId)
    \/ \E userId \in {ScheduleUser, UserIdOf(10 * FLAT_STARTING_USER_ID)},
          startTime \in {6, 12}, endTime \in {8, 14} :
          RunGetUserSchedule(userId, startTime, endTime)

SpecFlat == InitFlat /\ [][NextFlat]_vars

----------------------------------------------------------------------------
(* The flat schema: the composite _id *)

\* The ids the setup script generates: a uuid is a string of fixed length of
\* hexadecimal digits and hyphens, a template id is template_, hexadecimal
\* digits, a hyphen and alphanumerics.  The lengths are scaled down.
HexChars == {Zero, 97}
GeneratedTrackingIds == { <<Zero, a>> : a \in HexChars \cup {Hyphen} }
GeneratedTemplateIds == { TemplatePrefix \o <<a, Hyphen, Zero>> : a \in HexChars }
GeneratedUserIds == { UserIdOf(FLAT_STARTING_USER_ID), UserIdOf(10 * FLAT_STARTING_USER_ID) }

\* The code of the store's duplicate key error.
DuplicateKey == 11000

\* insertMany, for one document of the batch: the store rejects a document
\* whose _id is that of a stored document.
InsertDoc(userId, trackingId, templateId) ==
    /\ ghost.ops < MaxOps
    /\ LET doc == FlatDoc(userId, trackingId, templateId, 8, 9)
           req == [userId |-> userId, trackingId |-> trackingId, templateId |-> templateId]
       IN  IF \E d \in Range(store) : d._id = doc._id
           THEN /\ store' = store
                /\ last' = Response("insert", req, DuplicateKey, << >>)
           ELSE /\ store' = Append(store, doc)
                /\ last' = Response("insert", req, 0, << >>)
    /\ ghost' = Started(ghost)
    /\ UNCHANGED <<pending, now, pageSize, view>>

NextFlatKey ==
    \E userId \in GeneratedUserIds, trackingId \in GeneratedTrackingIds,
       templateId \in GeneratedTemplateIds : InsertDoc(userId, trackingId, templateId)

SpecFlatKey == Init /\ [][NextFlatKey]_vars

----------------------------------------------------------------------------
(* The flat schema: the setup script *)

\* In these specifications the collection is written as the batches of the
\* runs that filled it: a batch holds the documents of the user numbers
\* first .. last, DOCS_PER_USER documents for each (fewer for the last).
DEFAULT_NUM_DOCS == 1000000

\* The command line: whether --append and --reset are among the arguments,
\* and the first argument that is a number (NoNumber when there is none).
NoNumber == 0 - 1
ArgLists ==
    [append : BOOLEAN, reset : BOOLEAN,
     number : {NoNumber, DOCS_PER_USER, 9 * DOCS_PER_USER * FLAT_STARTING_USER_ID + DOCS_PER_USER}]

RECURSIVE Pow10(_)
Pow10(k) == IF k = 0 THEN 1 ELSE 10 * Pow10(k - 1)

\* The user numbers of a batch among which the greatest user_id string is:
\* of the numbers with equally many digits the greatest number has the
\* greatest string, so they are the last number and the numbers 9, 99, 999, ...
GreatestPerLength(batch) ==
    {batch.last} \cup { n \in { Pow10(k) - 1 : k \in 1 .. 7 } : batch.first <= n /\ n <= batch.last }

\* findOne({}, { sort: { user_id: -1 } }): the user number of the document
\* with the greatest user_id string.
MaxUserDoc(st) ==
    LET candidates == UNION { GreatestPerLength(st[i]) : i \in 1 .. Len(st) }
    IN  CHOOSE n \in candidates : \A m \in candidates : ~StrLess(UserIdOf(n), UserIdOf(m))

\* node setup.js args, the flat-schema script.
SetupFlat(args) ==
    /\ ghost.ops < MaxOps
    /\ LET isAppendMode == args.append
           isResetMode == args.reset \/ (~args.append /\ args.number = NoNumber)
           customDocCount == IF args.number # NoNumber THEN args.number ELSE 0
           NUM_DOCS_TO_GENERATE == IF customDocCount # 0 THEN customDocCount ELSE DEFAULT_NUM_DOCS
           kept == IF isResetMode THEN << >> ELSE store
           startingUserId ==
               IF isAppendMode /\ kept # << >> THEN MaxUserDoc(kept) + 1 ELSE FLAT_STARTING_USER_ID
           batch == [first |-> startingUserId,
                     last |-> startingUserId + ((NUM_DOCS_TO_GENERATE - 1) \div DOCS_PER_USER)]
       IN  IF isAppendMode /\ isResetMode
           THEN /\ store' = store
                /\ last' = Response("setup_flat", args, 1, << >>)
           ELSE /\ store' = Append(kept, batch)
                /\ last' = Response("setup_flat", args, 0,
                                    [logged |-> IF isAppendMode THEN "APPEND" ELSE "RESET",
                                     dropped |-> isResetMode,
                                     lookedUp |-> isAppendMode,
                                     batch |-> batch])
    /\ ghost' = Started(ghost)
    /\ UNCHANGED <<pending, now, pageSize, view>>

NextFlatSetup == \E args \in ArgLists : SetupFlat(args)

SpecFlatSetup == Init /\ [][NextFlatSetup]_vars

----------------------------------------------------------------------------
(* The campaign view paging over a collection, one request at a time *)

PageSizes == (1 .. MaxPageSize) \cup {PAGE_SIZE}

\* The users of a run: a few for the small page sizes, two more than a page
\* for the page size of the code.
PageUsers(size) == IF size = PAGE_SIZE THEN 1 .. (PAGE_SIZE + 2) ELSE 1 .. SmallUsers

StartOfHour == SetUTCHours(NewDate(Params.date), Params.hour)

MatchingEvent(status) == Event(StartOfHour, Params.templateId, Params.trackingId, status)

\* Events of which none is in the hour with the template and the tracking id:
\* one of another tracking id, one of another template, one in the tick before
\* the hour and one in the first tick after it.
DecoyEvents ==
    << Event(StartOfHour, Params.templateId, "track_002", "sent"),
       Event(StartOfHour, "template_002", Params.trackingId, "sent"),
       Event(StartOfHour - 1, Params.templateId, Params.trackingId, "sent"),
       Event(StartOfHour + TicksPerHour, Params.templateId, Params.trackingId, "sent") >>

PageBucket(u, events) ==
    LET startOfDay == StartOfDayUTC(NewDate(Params.date))
    IN  Bucket(u, "standard", startOfDay, startOfDay + RetentionDays * TicksPerDay, events)

\* A collection in which exactly the users of M match the query: in descending
\* order of user id, a bucket with one matching event (two for an even user id)
\* for a user of M and a bucket of decoys for the odd users outside M, then a
\* second bucket for the smallest user of M.
PageStore(M, U) ==
    LET owners == SortAscending(M \cup { u \in U \ M : u % 2 = 1 })
        n == Len(owners)
        bucketOf(u) ==
            IF u \notin M THEN PageBucket(u, DecoyEvents)
            ELSE IF u % 2 = 0
                 THEN PageBucket(u, <<MatchingEvent("sent"), MatchingEvent("opened")>>)
                 ELSE PageBucket(u, <<MatchingEvent("sent")>>)
        first == [i \in 1 .. n |-> bucketOf(owners[n + 1 - i])]
    IN  IF M = {} THEN first
        ELSE Append(first, PageBucket(SortAscending(M)[1], <<MatchingEvent("sent")>>))

InitPage ==
    /\ \E size \in PageSizes :
         \E M \in SUBSET PageUsers(size) :
            /\ size = PAGE_SIZE => Cardinality(PageUsers(size) \ M) <= MaxAbsent
            /\ pageSize = size
            /\ store = PageStore(M, PageUsers(size))
    /\ pending = << >>
    /\ now = FirstTime
    /\ last = NoRequest
    /\ view = NoView
    /\ ghost = NoGhost

\* Between the pages a replace makes a user match or stop matching.
PageReplaceLists == { << >>, <<WireEvent(StartOfHour, Params.templateId, Params.trackingId, "replaced")>> }

NextPage ==
    \/ HandleFormSubmit
    \/ LoadMore
    \/ /\ ghost.writes < MaxMut
       /\ \E userId \in PageUsers(pageSize), communications \in PageReplaceLists :
             ReplaceDay(0, userId, Params.date, communications)
    \/ \E i \in 1 .. MaxInFlight : UpsertInsert(i)

SpecPage == InitPage /\ [][NextPage]_vars

----------------------------------------------------------------------------
(* CampaignView with its requests in flight *)

\* The parameter sets of the form: the one of Params and one of another
\* tracking id.
ParamSets == { Params, [Params EXCEPT !.trackingId = "track_002"] }

\* window.currentLoadMore before any response: undefined.
NoLoadMore == [params |-> Params, lastUserId |-> NoCursor, defined |-> FALSE]

\* The state of CampaignView; in these specifications pending holds the
\* fetches that have no response yet.
InitialView ==
    [params |-> Params, distinctUsers |-> << >>, isLoading |-> FALSE, page |-> 1,
     hasMore |-> FALSE, lastUserId |-> NoCursor, currentLoadMore |-> NoLoadMore]

InitView ==
    /\ \E size \in 1 .. MaxPageSize :
         \E M \in SUBSET PageUsers(size) :
            /\ pageSize = size
            /\ store = PageStore(M, PageUsers(size))
    /\ pending = << >>
    /\ now = FirstTime
    /\ last = NoRequest
    /\ view = InitialView
    /\ ghost = NoGhost

\* handleChange: a field of the form changes.
HandleChange(q) ==
    /\ q # view.params
    /\ view' = [view EXCEPT !.params = q]
    /\ UNCHANGED <<store, pending, now, last, pageSize, ghost>>

\* handleSearch(isLoadMore, currentLastUserId) of the closure over q, up to the
\* fetch: the request is sent, its response is yet to come.
SendSearch(q, isLoadMore, currentLastUserId) ==
    LET useLastUserId == IF currentLastUserId # NoCursor THEN currentLastUserId ELSE view.lastUserId
        lastUserId == IF isLoadMore /\ useLastUserId # NoCursor THEN useLastUserId ELSE NoCursor
    IN  /\ Len(pending) < MaxInFlight
        /\ ghost.ops < MaxOps
        /\ pending' = Append(pending, [isLoadMore |-> isLoadMore, query |-> q, lastUserId |-> lastUserId])
        /\ ghost' = Started(ghost)

\* The Search button (never disabled): handleFormSubmit.
SubmitSearch ==
    /\ SendSearch(view.params, FALSE, NoCursor)
    /\ view' = [view EXCEPT !.isLoading = TRUE, !.page = 1, !.lastUserId = NoCursor]
    /\ UNCHANGED <<store, now, last, pageSize>>

\* The Load More button, rendered when there are results and hasMore, and
\* disabled while isLoading: window.currentLoadMore().
ClickLoadMore ==
    /\ Len(view.distinctUsers) > 0
    /\ view.hasMore
    /\ ~view.isLoading
    /\ view.currentLoadMore.defined
    /\ SendSearch(view.currentLoadMore.params, TRUE, view.currentLoadMore.lastUserId)
    /\ view' = [view EXCEPT !.isLoading = TRUE]
    /\ UNCHANGED <<store, now, last, pageSize>>

\* The response of a fetch arrives, in any order: the then and finally
\* callbacks of handleSearch.
ResponseArrives(i) ==
    /\ i \in 1 .. Len(pending)
    /\ LET request == pending[i]
           data == DistinctUsersPage(store, request.query, request.lastUserId, pageSize)
       IN  view' = [view EXCEPT
                       !.distinctUsers = IF request.isLoadMore THEN @ \o data.data ELSE data.data,
                       !.page = IF request.isLoadMore THEN @ + 1 ELSE 1,
                       !.hasMore = data.hasMore,
                       !.lastUserId = data.lastUserId,
                       !.currentLoadMore = [params |-> request.query,
                                            lastUserId |-> data.lastUserId,
                                            defined |-> TRUE],
                       !.isLoading = FALSE]
    /\ pending' = RemoveAt(pending, i)
    /\ UNCHANGED <<store, now, last, pageSize, ghost>>

NextView ==
    \/ \E q \in ParamSets : HandleChange(q)
    \/ SubmitSearch
    \/ ClickLoadMore
    \/ \E i \in 1 .. MaxInFlight : ResponseArrives(i)

SpecView == InitView /\ [][NextView]_vars

----------------------------------------------------------------------------
(* Properties of the status update *)

\* The step is a completed status update.
StatusStep ==
    /\ ghost'.ops = ghost.ops + 1
    /\ pending' = pending
    /\ last'.op = "status"

\* Some single event of a bucket of the user carries the three values of req.
SingleEventMatches(st, req) ==
    \E b \in Range(st) :
        /\ b.user.id = req.userId
        /\ \E e \in Range(b.events) :
              /\ e.dispatch_time = NewDate(req.dispatch_time)
              /\ e.metadata.template_id = req.templateId
              /\ e.metadata.tracking_id = req.trackingId

\* C2: a status update reports success (200) only when a single event of the
\* user has dispatch_time, template_id and tracking_id all equal to the
\* arguments; when no single event matches the tuple it reports not-found.
C2_SuccessOnlyOnFullMatch ==
    (last.op = "status" /\ last.status = 200) => SingleEventMatches(store, last.req)

\* The positions (bucket, event) whose status differs between st and st2.
ChangedStatus(st, st2) ==
    { <<i, k>> \in (1 .. Len(st)) \X (1 .. MaxOps * (MaxCount + SeedComms + 2)) :
        /\ i <= Len(st2)
        /\ k <= Len(st[i].events)
        /\ k <= Len(st2[i].events)
        /\ st[i].events[k].status # st2[i].events[k].status }

\* Everything but the status of the events is the same in st and st2.
SameButStatus(st, st2) ==
    /\ Len(st2) = Len(st)
    /\ \A i \in 1 .. Len(st) :
          /\ st2[i].user = st[i].user
          /\ st2[i].day = st[i].day
          /\ st2[i].expireAt = st[i].expireAt
          /\ st2[i].event_count = st[i].event_count
          /\ Len(st2[i].events) = Len(st[i].events)
          /\ \A k \in 1 .. Len(st[i].events) :
                /\ st2[i].events[k].dispatch_time = st[i].events[k].dispatch_time
                /\ st2[i].events[k].metadata = st[i].events[k].metadata

\* C8: a successful status update changes the status of the one targeted
\* event only: at most one event's status changes, every other field of every
\* event and bucket, event_count and the length of events are unchanged.
C8_OnlyOneEventChanges ==
    [][(StatusStep /\ last'.status = 200) =>
          /\ SameButStatus(store, store')
          /\ Cardinality(ChangedStatus(store, store')) <= 1]_vars

\* C9: a status update applied twice with the same arguments, nothing else in
\* between, leaves the store after the second call as after the first, and
\* both calls report the same result.
C9_StatusUpdateIdempotent ==
    [][(StatusStep /\ last.op = "status" /\ last'.req = last.req) =>
          /\ store' = store
          /\ last'.status = last.status]_vars

\* A status update that matched and set a new status has been repeated.
C9_Witness ==
    /\ last.op = "status"
    /\ last.status = 200
    /\ ghost.retry
    /\ \E b \in Range(store) : \E e \in Range(b.events) : e.status = last.req.newStatus

\* No event of a bucket of the user carries the tracking id.
NoEventCarries(st, userId, trackingId) ==
    \A b \in Range(st) :
        b.user.id = userId =>
            \A e \in Range(b.events) : e.metadata.tracking_id # trackingId

\* C10: a status update with a tracking_id that no event of that user carries
\* returns not-found (404) and leaves every stored bucket and event unchanged.
C10_UnknownTrackingNotFound ==
    [][(StatusStep /\ NoEventCarries(store, last'.req.userId, last'.req.trackingId)) =>
          /\ last'.status = 404
          /\ store' = store]_vars

\* A status update was answered 404 for a user who has events with the
\* dispatch_time and the template asked for, none of them with the tracking id.
C10_Witness ==
    /\ last.op = "status"
    /\ last.status = 404
    /\ NoEventCarries(store, last.req.userId, last.req.trackingId)
    /\ \E b \in Range(store) :
          /\ b.user.id = last.req.userId
          /\ \E e \in Range(b.events) :
                /\ e.dispatch_time = NewDate(last.req.dispatch_time)
                /\ e.metadata.template_id = last.req.templateId

----------------------------------------------------------------------------
(* Properties of the buckets *)

\* C3: in every reachable state, whatever the interleaving of appends, status
\* updates and replaces, each stored bucket's event_count equals the length of
\* its events array.
C3_EventCountIsLength ==
    \A b \in Range(store) : b.event_count = Len(b.events)

\* A bucket that several writes built: more events than one append pushes.
C3_Witness ==
    \E i \in 1 .. Len(store) :
        /\ Len(store[i].events) > MaxCount
        /\ store[i].event_count = Len(store[i].events)

\* C5: exactly one bucket exists per (user_id, day): no two bucket documents
\* carry the same user id and day.
C5_OneBucketPerUserDay ==
    \A i, j \in 1 .. Len(store) :
        (store[i].user.id = store[j].user.id /\ store[i].day = store[j].day) => i = j

BucketsOf(st, key) == { i \in 1 .. Len(st) : st[i].user.id = key[1] /\ st[i].day = key[2] }

\* C4: for every sequence of appends on one (user_id, day) starting from an
\* absent bucket, the bucket's event_count equals the sum of the counts
\* appended and the events array has that many elements.
C4_AppendAccumulates ==
    \A key \in DOMAIN ghost.sum :
        ghost.sum[key] # Tainted =>
            /\ Cardinality(BucketsOf(store, key)) = 1
            /\ \A i \in BucketsOf(store, key) :
                  /\ store[i].event_count = ghost.sum[key]
                  /\ Len(store[i].events) = ghost.sum[key]

\* Two appends on one user and day have completed and both counted.
C4_Witness ==
    /\ last.op = "append"
    /\ ghost.retry
    /\ \E key \in DOMAIN ghost.sum :
          /\ ghost.sum[key] = 2 * MaxCount
          /\ \E i \in BucketsOf(store, key) : store[i].event_count = 2 * MaxCount

\* C7: after ReplaceDay(u, d, E) completes, GetDay(u, d) returns exactly the
\* sequence E, and the bucket's event_count is the length of E, whatever the
\* bucket held before and whether or not it existed.
C7_ReplaceThenGetDay ==
    (last.op = "replace" /\ last.status = 200) =>
        \A date \in Days :
            StartOfDayUTC(NewDate(date)) = StartOfDayUTC(NewDate(last.req.date)) =>
                /\ GetDayEvents(store, last.req.userId, date) = last.req.communications
                /\ \A i \in 1 .. Len(store) :
                      (/\ MatchesUserDay(store[i], last.req.userId, StartOfDayUTC(NewDate(date)))
                       /\ \A j \in 1 .. (i - 1) :
                             ~MatchesUserDay(store[j], last.req.userId, StartOfDayUTC(NewDate(date))))
                      => store[i].event_count = Len(last.req.communications)

\* A replace with two events has completed on a bucket that appends had filled.
C7_Witness ==
    /\ last.op = "replace"
    /\ last.status = 200
    /\ Len(last.req.communications) = 2
    /\ ghost.writes = MaxWrites
    /\ Len(store) = 1
    /\ store[1].user.type # Unset

----------------------------------------------------------------------------
(* Properties of the campaign pages *)

StrictlyAscending(s) == \A i \in 1 .. (Len(s) - 1) : s[i] < s[i + 1]

\* C1: for a fixed set of matching buckets, a search followed by Load More with
\* each returned lastUserId until hasMore is false returns every distinct
\* matching user id exactly once, in strictly ascending order, for every page
\* size from 1 on.
C1_PagesCoverMatchingUsersOnce ==
    (view.searched /\ ghost.stable) =>
        /\ StrictlyAscending(view.distinctUsers)
        /\ Range(view.distinctUsers) \subseteq MatchingUsers(store, Params)
        /\ Len(view.distinctUsers) <= view.page * pageSize
        /\ ~view.hasMore => Range(view.distinctUsers) = MatchingUsers(store, Params)

\* The last of at least three pages has been fetched over an unchanged
\* collection, the earlier pages being full.
C1_Witness ==
    /\ view.searched
    /\ ghost.stable
    /\ ~view.hasMore
    /\ view.page >= 3
    /\ Len(view.distinctUsers) > (view.page - 1) * pageSize
    /\ Range(view.distinctUsers) = MatchingUsers(store, Params)

\* C6: a user who starts to match with a user id below the cursor after a page
\* was fetched does not appear in any later page obtained by following the
\* cursor.
C6_NewUserBelowCursorNotListed ==
    \A p \in ghost.below : p[1] \notin Range(view.distinctUsers)

\* A user started to match below the cursor after page 1, and a later page
\* with users in it has been fetched since.
C6_Witness ==
    \E p \in ghost.below :
        /\ p[2] = 1
        /\ view.page > p[2]
        /\ Len(view.distinctUsers) > pageSize
        /\ p[1] \in MatchingUsers(store, Params)

----------------------------------------------------------------------------
(* Properties of concurrent writes to one bucket *)

\* The step is an append that found its bucket and pushed onto it.
AppendStep ==
    /\ ghost'.writes = ghost.writes + 1
    /\ pending' = pending
    /\ last'.op = "append"
    /\ last'.status = 201

\* The bucket an append of the user writes to at the time t: the first bucket
\* of the user for the UTC day of t, 0 when there is none.
AppendBucket(st, userId, t) ==
    FirstIndex(st, LAMBDA b : MatchesUserDay(b, userId, StartOfDayUTC(t)))

\* The append keeps every event of every bucket as it is and adds its events
\* at the end of its bucket.
AppendKeepsEvents ==
    AppendStep =>
        LET idx == AppendBucket(store, last'.req.userId, now)
        IN  /\ idx > 0
            /\ Len(store') = Len(store)
            /\ \A i \in 1 .. Len(store) : i # idx => store'[i] = store[i]
            /\ Len(store'[idx].events) = Len(store[idx].events) + last'.req.count
            /\ SubSeq(store'[idx].events, 1, Len(store[idx].events)) = store[idx].events

\* The status update keeps the events of the append's bucket, their number and
\* every field of them but the status.
StatusKeepsEvents ==
    StatusStep => SameButStatus(store, store')

\* The bucket the status update selects: the first one matching its filter,
\* 0 when there is none.
StatusBucket(st, req) ==
    FirstIndex(st, LAMBDA b :
        StatusFilter(b, req.userId, NewDate(req.dispatch_time), req.templateId, req.trackingId))

\* The status update that targets an event of the bucket that an append of
\* the same user writes to leaves that event with the new status.
StatusReachesTarget ==
    StatusStep =>
        LET req == last'.req
            idx == AppendBucket(store, req.userId, now)
            targeted(e) == ElemMatches(e, NewDate(req.dispatch_time), req.templateId, req.trackingId)
        IN  (/\ idx > 0
             /\ StatusBucket(store, req) = idx
             /\ \E e \in Range(store[idx].events) : targeted(e)) =>
                /\ last'.status = 200
                /\ \A e \in Range(store'[idx].events) : targeted(e) => e.status = req.newStatus

StoredEvents(communications) ==
    [i \in 1 .. Len(communications) |-> [communications[i] EXCEPT !.dispatch_time = NewDate(@)]]

\* C12: when two replaces with the lists E1 and E2 run concurrently on the same
\* (user_id, day), the bucket of that user and day ends with exactly the list
\* of the later write and the matching event_count, never a mixture.  Stated
\* on the completion of a replace, when every bucket of its user and day was
\* written by replaces only: the bucket that reads and writes of that key
\* select holds the list of this replace, the latest one.
C12_ConcurrentReplaceLastWriteWins ==
    (last.op = "replace" /\ last.status = 200) =>
        LET key == <<last.req.userId, StartOfDayUTC(NewDate(last.req.date))>>
            idx == FirstIndex(store, LAMBDA b : MatchesUserDay(b, key[1], key[2]))
        IN  (\A i \in BucketsOf(store, key) : store[i].user.type = Unset) =>
                /\ idx > 0
                /\ store[idx].events = StoredEvents(last.req.communications)
                /\ store[idx].event_count = Len(last.req.communications)

----------------------------------------------------------------------------
(* Properties of the creation of buckets *)

\* C13: no bucket with an empty events array exists in any reachable state:
\* an append and a replace never create a bucket with zero events, and a
\* replace with an empty list leaves no bucket for that user and day.
C13_NoEmptyBucket ==
    \A b \in Range(store) : Len(b.events) > 0

\* C14: every bucket, whichever operation created it (the upsert of an append,
\* the upsert of a replace, the seeding), carries an expireAt equal to its day
\* plus the retention window.
C14_ExpireAtIsDayPlusRetention ==
    \A b \in Range(store) : b.expireAt = b.day + RetentionDays * TicksPerDay

----------------------------------------------------------------------------
(* Properties of one page of the campaign query *)

\* The cursors a page may be asked with: none, or any user id.
Cursors == {NoCursor} \cup PageUsers(pageSize)

\* The matching user ids beyond the cursor c.
Beyond(st, c) == { u \in MatchingUsers(st, Params) : c = NoCursor \/ u > c }

\* The page returned for the cursor c.
PageAt(c) == DistinctUsersPage(store, Params, c, pageSize)

\* C15: a page never holds more than page_size user ids, and hasMore is true
\* exactly when more than page_size distinct matching user ids lie beyond the
\* supplied cursor, that is when a matching id greater than the last returned
\* id exists; the extra fetched id is never part of the page.
C15_PageSizeAndHasMore ==
    /\ \A c \in Cursors :
          LET r == PageAt(c)
              beyond == Beyond(store, c)
          IN  /\ Len(r.data) <= pageSize
              /\ Len(r.data) = Min(pageSize, Cardinality(beyond))
              /\ Range(r.data) \subseteq beyond
              /\ r.hasMore <=> Cardinality(beyond) > pageSize
              /\ r.hasMore <=> (\E u \in beyond : u \notin Range(r.data))
              /\ r.hasMore => \E u \in beyond : u > r.lastUserId
    /\ (view.searched /\ ghost.stable) =>
          /\ Len(view.distinctUsers) <= view.page * pageSize
          /\ view.hasMore <=> (\E u \in MatchingUsers(store, Params) : u > view.lastUserId)

\* Two full pages have been fetched and exactly one matching user, the extra
\* one fetched with the second page, is left for a third.
C15_Witness ==
    /\ view.searched
    /\ ghost.stable
    /\ view.page = 2
    /\ view.hasMore
    /\ Len(view.distinctUsers) = 2 * pageSize
    /\ Cardinality(MatchingUsers(store, Params)) = 2 * pageSize + 1

\* C16: the cursor returned with a page (lastUserId) is the last, and largest,
\* user id of the page when the page is not empty, and null exactly when the
\* page is empty, in which case hasMore is false.
C16_CursorIsLastOfPage ==
    /\ \A c \in Cursors :
          LET r == PageAt(c)
          IN  /\ (r.data = << >>) <=> (r.lastUserId = NoCursor)
              /\ r.data = << >> => ~r.hasMore
              /\ r.data # << >> =>
                    /\ r.lastUserId = r.data[Len(r.data)]
                    /\ \A i \in 1 .. Len(r.data) : r.data[i] <= r.lastUserId
    /\ (view.searched /\ ghost.stable) =>
          /\ (view.distinctUsers = << >>) <=> (view.lastUserId = NoCursor)
          /\ view.distinctUsers = << >> => ~view.hasMore
          /\ view.distinctUsers # << >> =>
                view.lastUserId = view.distinctUsers[Len(view.distinctUsers)]

\* Load More has come back with an empty page, the users beyond the cursor
\* having stopped matching: the cursor is null and hasMore false.
C16_Witness ==
    /\ view.searched
    /\ view.page >= 2
    /\ view.distinctUsers # << >>
    /\ view.lastUserId = NoCursor
    /\ ~view.hasMore
    /\ PageAt(view.distinctUsers[Len(view.distinctUsers)]).data = << >>

\* C17: a page asked with a cursor whose user id is no longer among the
\* matching users (removed between pages) holds exactly the first matching user
\* ids strictly greater than the cursor, in ascending order; the accumulated
\* pages contain no duplicate and miss no user that matched throughout.
C17_AbsentCursorStillPages ==
    /\ \A c \in PageUsers(pageSize) \ MatchingUsers(store, Params) :
          LET r == PageAt(c)
              greater == { u \in MatchingUsers(store, Params) : u > c }
          IN  /\ StrictlyAscending(r.data)
              /\ Range(r.data) \subseteq greater
              /\ Len(r.data) = Min(pageSize, Cardinality(greater))
              /\ \A u \in greater \ Range(r.data) : \A v \in Range(r.data) : v < u
    /\ view.searched =>
          /\ StrictlyAscending(view.distinctUsers)
          /\ ~view.hasMore => ghost.always \subseteq Range(view.distinctUsers)

\* The user of the cursor stopped matching after a page, and the pages fetched
\* since, the last one included, brought the users beyond it.
C17_Witness ==
    \E p \in ghost.gone :
        /\ view.page > p[2]
        /\ ~view.hasMore
        /\ p[1] \in Range(view.distinctUsers)
        /\ p[1] \notin MatchingUsers(store, Params)
        /\ \E u \in Range(view.distinctUsers) : u > p[1]
        /\ ghost.always \subseteq Range(view.distinctUsers)

\* The user has a bucket of the queried UTC day with a single event of the
\* template and the tracking id in the hour [start_of_hour, start_of_hour + 1h).
Qualifies(st, u) ==
    \E i \in 1 .. Len(st) :
        /\ st[i].user.id = u
        /\ st[i].day = (NewDate(Params.date) \div TicksPerDay) * TicksPerDay
        /\ \E k \in 1 .. Len(st[i].events) :
              LET e == st[i].events[k]
                  start == st[i].day + Params.hour * TicksPerHour
              IN  /\ start <= e.dispatch_time
                  /\ e.dispatch_time <= start + TicksPerHour - 1
                  /\ e.metadata.template_id = Params.templateId
                  /\ e.metadata.tracking_id = Params.trackingId

\* C18: a user id belongs to the result set if and only if the user's bucket
\* for the queried UTC day contains at least one single event with
\* dispatch_time in [start_of_hour, start_of_hour + 1h), the template and the
\* tracking id all at once; it is listed once however many events match.
C18_ResultSetIsQualifyingUsers ==
    /\ \A u \in PageUsers(pageSize) : u \in MatchingUsers(store, Params) <=> Qualifies(store, u)
    /\ \A u \in MatchingUsers(store, Params) : u \in PageUsers(pageSize)
    /\ (view.searched /\ ghost.stable /\ ~view.hasMore) =>
          \A u \in PageUsers(pageSize) :
              Cardinality({ i \in 1 .. Len(view.distinctUsers) : view.distinctUsers[i] = u })
                  = IF Qualifies(store, u) THEN 1 ELSE 0

\* All pages have been fetched: a user with two matching events in one bucket
\* and a user with two matching buckets are listed, a user whose events meet
\* the conditions only one by one is not.
C18_Witness ==
    /\ view.searched
    /\ ghost.stable
    /\ ~view.hasMore
    /\ view.page >= 2
    /\ \E u \in Range(view.distinctUsers) :
          \E b \in Range(store) :
              /\ b.user.id = u
              /\ Cardinality({ k \in 1 .. Len(b.events) : b.events[k] = MatchingEvent(b.events[k].status) }) = 2
    /\ \E u \in Range(view.distinctUsers) :
          Cardinality({ i \in 1 .. Len(store) : store[i].user.id = u }) = 2
    /\ \E u \in PageUsers(pageSize) \ Range(view.distinctUsers) :
          \E b \in Range(store) : b.user.id = u /\ b.events = DecoyEvents

----------------------------------------------------------------------------
(* Malformed identifiers and store failures *)

\* C19: a request whose user id is not a number (GetDay) or whose day string
\* is no date (GetDay, ReplaceDay) is answered with a client error, and no
\* bucket is written for it.
C19_MalformedIdentifierRejected ==
    /\ (/\ last.op \in {"getday", "replace"}
        /\ (last.req.userId = NaNUserId \/ last.req.date = Unparsable))
       => last.status = 400
    /\ \A b \in Range(store) : b.day # Epoch

----------------------------------------------------------------------------
(* Requests that lack a required field *)

\* The request lacks a field its handler requires.
Lacks(op, req) ==
    CASE op = "getday" -> req.date = NoDate
      [] op = "append" ->
            req.userId = 0 \/ req.userType = "" \/ req.templateId = "" \/ req.trackingId = ""
      [] op = "status" ->
            \/ req.userId = 0 \/ req.dispatch_time = NoDate \/ req.templateId = ""
            \/ req.trackingId = "" \/ req.newStatus = ""
      [] op = "campaign" ->
            req.q.date = NoDate \/ req.q.hour = NoHour \/ req.q.templateId = "" \/ req.q.trackingId = ""
      [] op = "replace" ->
            req.userId = 0 \/ req.date = NoDate \/ req.communications = NotArray
      [] OTHER -> FALSE

\* C21: a request that lacks a required field is answered 400, and the step
\* that answers it changes no bucket and starts no upsert.
C21_MissingFieldRejected ==
    [][(/\ ghost'.ops = ghost.ops + 1
        /\ pending' = pending
        /\ Lacks(last'.op, last'.req))
       => (last'.status = 400 /\ store' = store)]_vars

\* A status update without dispatch_time was answered 400 on a store with buckets.
C21_Witness ==
    /\ last.op = "status"
    /\ last.req.dispatch_time = NoDate
    /\ last.req.userId # 0
    /\ last.status = 400
    /\ store # << >>

----------------------------------------------------------------------------
(* Expiry *)

\* The store holds a bucket of the user and day whose expireAt has passed.
Expired(userId, day) ==
    \E b \in Range(store) :
        /\ b.user.id = userId
        /\ b.day = day
        /\ b.expireAt # UnsetTime
        /\ b.expireAt < now

\* C22: a bucket whose expireAt has passed is eventually removed from the
\* store, without any request.
C22_ExpiredBucketRemoved ==
    \A userId \in UserIds, day \in {0, TicksPerDay} :
        Expired(userId, day) ~> ~Expired(userId, day)

----------------------------------------------------------------------------
(* The flat schema: keyset pages and the user schedule *)

\* The user ids of the segment, in the order of the store.
SegmentUsers ==
    LET t == SegmentData(NullString)
    IN  SortByUserId({ d \in Range(store) :
                          /\ d.tracking_id = t.trackingId
                          /\ d.template_id = t.templateId
                          /\ d.planned_date_hour = t.plannedDateHour })

\* The continuation pages that follow the cursor c, one after the other.
RECURSIVE ContinuationPages(_)
ContinuationPages(c) ==
    LET page == GetScheduleSegment_v2(store, SegmentData(c), pageSize)
    IN  IF page = << >> THEN << >> ELSE page \o ContinuationPages(page[Len(page)])

\* The initial page and the continuation pages that follow it.
ChainedPages ==
    LET page == GetScheduleSegment_v1(store, SegmentData(NullString), pageSize)
    IN  IF page = << >> THEN << >> ELSE page \o ContinuationPages(page[Len(page)])

\* C23: for every cursor the two call shapes return the same page, of at most
\* a page of user ids in ascending order, all greater than the cursor; and the
\* initial page chained with the continuation pages lists the users of the
\* segment, each once, in ascending order.
C23_SegmentShapesAgree ==
    /\ \A c \in FlatCursors :
          LET p1 == GetScheduleSegment_v1(store, SegmentData(c), pageSize)
              p2 == GetScheduleSegment_v2(store, SegmentData(c), pageSize)
          IN  /\ p1 = p2
              /\ Len(p1) <= pageSize
              /\ \A i \in 1 .. Len(p1) : StrLess(c, p1[i])
              /\ \A i \in 1 .. (Len(p1) - 1) : StrLess(p1[i], p1[i + 1])
    /\ ChainedPages = [i \in 1 .. Len(SegmentUsers) |-> SegmentUsers[i].user_id]
    /\ last.op = "segment_v2" /\ last.req.lastUserId # NullString
          => last.body = GetScheduleSegment_v1(store, last.req, pageSize)

\* A continuation page was answered in a segment of more users than two pages
\* hold, with a cursor inside the segment, and left users for a later page.
C23_Witness ==
    /\ last.op = "segment_v2"
    /\ last.req.lastUserId \in FlatUsers
    /\ Len(last.body) = pageSize
    /\ Len(SegmentUsers) > 2 * pageSize
    /\ \E d \in Range(SegmentUsers) : StrLess(last.body[Len(last.body)], d.user_id)

\* C24: the user schedule holds exactly the documents of the user whose
\* planned_date_hour is in [startTime, endTime], by final_score descending.
C24_UserScheduleRangeByScore ==
    last.op = "schedule" =>
        /\ { e._id : e \in Range(last.body) }
              = { d._id : d \in { x \in Range(store) :
                                     /\ x.user_id = last.req.userId
                                     /\ last.req.startTime <= x.planned_date_hour
                                     /\ x.planned_date_hour <= last.req.endTime } }
        /\ \A i, j \in 1 .. Len(last.body) : i # j => last.body[i]._id # last.body[j]._id
        /\ \A i \in 1 .. (Len(last.body) - 1) :
              last.body[i].final_score >= last.body[i + 1].final_score

\* Documents at 08:00, 12:00 and 20:00 with scores 0.9, 0.6 and 0.8, read
\* with [06:00, 14:00]: the 08:00 document, then the 12:00 document.
C24_Witness ==
    /\ last.op = "schedule"
    /\ last.req.userId = ScheduleUser
    /\ last.req.startTime = 6 /\ last.req.endTime = 14
    /\ { <<d.planned_date_hour, d.final_score>> :
            d \in { x \in Range(store) : x.user_id = ScheduleUser } }
          = { <<8, 9>>, <<12, 6>>, <<20, 8>> }
    /\ Len(last.body) = 2
    /\ last.body[1].final_score = 9
    /\ last.body[2].final_score = 6

----------------------------------------------------------------------------
(* The flat schema: uniqueness of the composite key *)

TripleOf(d) == <<d.user_id, d.tracking_id, d.template_id>>

GeneratedTriples == GeneratedUserIds \X GeneratedTrackingIds \X GeneratedTemplateIds

\* C25: no two stored documents have the same (user_id, tracking_id,
\* template_id); two different triples of generated ids have different keys;
\* and a document is rejected as a duplicate only when its triple is stored.
C25_CompositeKeyUnique ==
    /\ \A i, j \in 1 .. Len(store) : TripleOf(store[i]) = TripleOf(store[j]) => i = j
    /\ \A x, y \in GeneratedTriples :
          CompositeId(x[1], x[2], x[3]) = CompositeId(y[1], y[2], y[3]) => x = y
    /\ last.op = "insert" /\ last.status = DuplicateKey
          => \E d \in Range(store) :
                TripleOf(d) = <<last.req.userId, last.req.trackingId, last.req.templateId>>

\* A document was rejected as a duplicate while the collection holds two
\* documents that differ in one id of the triple only.
C25_Witness ==
    /\ last.op = "insert"
    /\ last.status = DuplicateKey
    /\ \E i, j \in 1 .. Len(store) :
          /\ store[i].user_id = store[j].user_id
          /\ store[i].tracking_id = store[j].tracking_id
          /\ store[i].template_id # store[j].template_id

----------------------------------------------------------------------------
(* The setup scripts: append mode and the command line *)

\* C26: every user number an append run generates is greater than every user
\* number stored before the run.
C26_AppendContinuesAboveStored ==
    [][(/\ ghost'.ops = ghost.ops + 1
        /\ last'.op = "setup_flat"
        /\ last'.status = 0
        /\ last'.req.append)
       => \A i \in 1 .. Len(store) : store[i].last < last'.body.batch.first]_vars

\* C29: a run that the script accepts is in exactly one of reset and append
\* mode; when it logs RESET it has dropped the collection, and when it keeps
\* the collection it takes the starting user id from the stored documents.
C29_LoggedModeIsExecutedMode ==
    last.op = "setup_flat" /\ last.status = 0
        => /\ last.body.dropped # last.body.lookedUp
           /\ last.body.logged = "RESET" => last.body.dropped
           /\ ~last.body.dropped => last.body.lookedUp

----------------------------------------------------------------------------
(* CampaignView: the displayed list under requests in flight *)

\* s is the beginning of t.
IsPrefix(s, t) == Len(s) <= Len(t) /\ s = SubSeq(t, 1, Len(s))

\* C30: the displayed list is made of pages of one search: it is the
\* beginning of the ascending list of the users that match one parameter set.
C30_DisplayedListIsOneSearch ==
    \E q \in ParamSets : IsPrefix(view.distinctUsers, SortAscending(MatchingUsers(store, q)))

----------------------------------------------------------------------------
(* The cursor along a chain of campaign pages *)

\* The least number of pages of size that hold n users.
PagesFor(n, size) == (n + size - 1) \div size

\* C27: the users of a continuation page are greater than the cursor it was
\* asked with, and so is the cursor it returns, whatever was written between
\* the calls; and with an unchanged set of n matching users hasMore is false
\* after at most ceil(n / page size) calls (one call when n = 0).
C27_CursorIncreasesAndChainEnds ==
    /\ [][view'.page = view.page + 1
            => /\ \A i \in (Len(view.distinctUsers) + 1) .. Len(view'.distinctUsers) :
                     view'.distinctUsers[i] > view.lastUserId
               /\ view'.lastUserId # NoCursor => view'.lastUserId > view.lastUserId]_vars
    /\ [](view.searched /\ ghost.stable
            => LET n == Cardinality(MatchingUsers(store, Params))
               IN  /\ view.hasMore => view.page < PagesFor(n, pageSize)
                   /\ view.page <= Max({1, PagesFor(n, pageSize)}))

\* A chain of at least three calls, each of which returned a user, with a
\* write that changed the matching users after the search.
C27_Witness ==
    /\ view.searched
    /\ ~ghost.stable
    /\ view.page >= 3
    /\ Len(view.distinctUsers) >= view.page
    /\ view.hasMore

----------------------------------------------------------------------------
(* Events and the day of their bucket *)

\* C28: every event stored in a bucket has its dispatch_time inside the UTC
\* day of the bucket, [day, day + 24h), after any sequence of seeding,
\* AppendEvents and ReplaceDay.
C28_EventsInsideBucketDay ==
    \A i \in 1 .. Len(store) :
        \A j \in 1 .. Len(store[i].events) :
            /\ store[i].day <= store[i].events[j].dispatch_time
            /\ store[i].events[j].dispatch_time < store[i].day + TicksPerDay


====
